---- MODULE Spec2Model ----
(***************************************************************************)
(* contribute.json validator service (src/app/__main__.py).                *)
(*                                                                         *)
(* State: the memcached store shared by the three views, and the clock     *)
(* that decides which entries are still alive.  Operations: POST /validate *)
(* (ValidationView.post), POST /validateurl (ValidateUrlView.post) and     *)
(* GET /examples.json (ExamplesView.get), each handled in one step, as the *)
(* single-threaded server the source describes handles them, or, under a   *)
(* server with several workers, step by step: procs holds each worker's    *)
(* position in its handler and its local variables.  The remote hosts are  *)
(* the environment: every outbound requests.get draws its result from a    *)
(* small set, or waits for it.                                             *)
(***************************************************************************)
EXTENDS Integers, Sequences, FiniteSets, TLC

VARIABLES cache, now, ticks, nreq, last, obs, procs

vars == <<cache, now, ticks, nreq, last, obs, procs>>

(***************************************************************************)
(* Bounds of the model.                                                    *)
(***************************************************************************)
MaxTicks == 2
MaxRequests == 3
\* The length of a run of the three views together.
MaxSteps == 3

(***************************************************************************)
(* Python values, tagged by their type.                                    *)
(***************************************************************************)
None == [t |-> "NoneType"]
Str(s) == [t |-> "str", s |-> s]
Bool(b) == [t |-> "bool", b |-> b]
Num(n) == [t |-> "int", n |-> n]
List(l) == [t |-> "list", l |-> l]
Dict(d) == [t |-> "dict", d |-> d]

\* The outcome of a call: the value it returns, or the exception it raises.
Ok(v) == [exc |-> "none", v |-> v]
Raise(e) == [exc |-> e, v |-> None]

\* Python truthiness of the values the views test (if url, elif request.data).
Truthy(v) ==
  CASE v.t = "NoneType" -> FALSE
    [] v.t = "str" -> ("json" \in DOMAIN v) \/ v.s # ""
    [] v.t = "bool" -> v.b
    [] v.t = "int" -> v.n # 0
    [] v.t = "list" -> v.l # <<>>
    [] OTHER -> TRUE

(***************************************************************************)
(* json.dumps / json.loads.  The text of a serialized list or dict is the  *)
(* str [t |-> "str", json |-> v]: a str, not the value it encodes.  The    *)
(* text of a scalar is the plain str Python writes for it.  json.loads     *)
(* gives back what a JSON text encodes and raises on any other str.        *)
(***************************************************************************)
json_dumps(v) ==
  CASE v.t = "bool" -> Str(IF v.b THEN "true" ELSE "false")
    [] v.t = "NoneType" -> Str("null")
    [] OTHER -> [t |-> "str", json |-> v]

json_loads(s) ==
  IF s.t # "str" THEN Raise("TypeError")
  ELSE IF "json" \in DOMAIN s THEN Ok(s.json)
  ELSE CASE s.s = "true" -> Ok(Bool(TRUE))
         [] s.s = "false" -> Ok(Bool(FALSE))
         [] s.s = "null" -> Ok(None)
         [] OTHER -> Raise("ValueError")

(***************************************************************************)
(* The store: cache = MemcachedCache(MEMCACHE_URL).  An entry lives until  *)
(* its expiry instant; a dead entry reads as None, like a key never set.   *)
(***************************************************************************)
Alive(c, t, key) == key \in DOMAIN c /\ t < c[key].exp

\* cache.get(key)
MemcachedGet(c, t, key) == IF Alive(c, t, key) THEN c[key].val ELSE None

\* cache.set(key, value, timeout)
MemcachedSet(c, t, key, value, timeout) ==
  (key :> [val |-> value, exp |-> t + timeout]) @@ c

\* isinstance(value, (dict, list, bool))
IsStructured(v) == v.t \in {"dict", "list", "bool"}

\* cache_set(key, value, timeout): the store after the call.
cache_set(c, t, key, value, timeout) ==
  MemcachedSet(c, t, key,
               IF IsStructured(value) THEN json_dumps(value) ELSE value,
               timeout)

\* cache_get(key, default), lines 48-49: a miss reads as the default.
OrDefault(value, default) == IF value = None THEN default ELSE value

\* cache_get(key, default), lines 50-52: anything not structured is parsed.
LoadUnlessStructured(value) ==
  IF value # None /\ ~IsStructured(value) THEN json_loads(value) ELSE Ok(value)

\* cache_get(key, default): the value returned, or the exception of json.loads.
cache_get(c, t, key, default) ==
  LoadUnlessStructured(OrDefault(MemcachedGet(c, t, key), default))

(***************************************************************************)
(* Program constants.                                                      *)
(***************************************************************************)
SCHEMA_URL == "https://raw.githubusercontent.com/mozilla/contribute.json/master/schema.json"
this_url == "https://raw.githubusercontent.com/mozilla/contribute.json/master/contribute.json"
\* request.host_url of the deployment, and the service's own contribute.json.
host_url == "http://localhost:5000/"
SelfUrl == host_url \o "contribute.json"

SchemaTtl == 60 * 60
HistoryTtl == 60 * 60 * 24 * 10
ReachTtl == 60

\* Mutant: the URL is left out of the key.
ReachKey_Constant(url) == "validation-"

\* 'validation-%s' % url
ReachKey(url) == "validation-" \o url

(***************************************************************************)
(* The environment: documents, schemas and what a remote host answers.     *)
(***************************************************************************)
\* URLs a client submits: two documents elsewhere, the service's own
\* contribute.json, and the same with a query string.
SelfUrlWithQuery == SelfUrl \o "?v=1"
Urls == {"http://a/c.json", "http://b/c.json", SelfUrl, SelfUrlWithQuery}
CheckUrls == {"http://a/c.json", "http://b/c.json"}

\* A document with every required member, and one without.
DocGood == Dict([name |-> "x", description |-> "d"])
DocBad == Dict([name |-> "x"])
Docs == {DocGood, DocBad}

\* The schema the endpoint serves: a JSON object, well-formed or malformed
\* (its "type" keyword names no JSON type).
SchemaGood == Dict([type |-> "object", required |-> {"name", "description"}])
SchemaMalformed == Dict([type |-> "objekt", required |-> {"name", "description"}])
Schemas == {SchemaGood, SchemaMalformed}

NotJson == Str("<html>")

\* What requests.get does: raises, or returns a response (status, body).
Response(status, body) == [exc |-> "none", status_code |-> status, body |-> body]
ConnectionError == [exc |-> "ConnectionError"]
TooManyRedirects == [exc |-> "TooManyRedirects"]
ContentAnswers ==
  {ConnectionError} \cup {Response(200, b) : b \in {json_dumps(d) : d \in Docs} \cup {NotJson}}
SchemaAnswers ==
  {ConnectionError} \cup {Response(200, b) : b \in {json_dumps(d) : d \in Schemas} \cup {NotJson}}
Statuses == {199, 200, 499, 500}
ReachAnswers ==
  {ConnectionError, TooManyRedirects} \cup {Response(s, NotJson) : s \in Statuses}

\* requests' exception classes: ConnectionError and TooManyRedirects are
\* RequestExceptions.
IsRequestException(e) == e \in {"RequestException", "ConnectionError", "TooManyRedirects"}

\* response.json()
response_json(answer) == json_loads(answer.body)

(***************************************************************************)
(* jsonschema.validate(content, schema): the schema is checked first, then *)
(* the document.  Returns the exception raised, "none" when it passes.     *)
(***************************************************************************)
SimpleTypes == {"array", "boolean", "integer", "null", "number", "object", "string"}

jsonschema_validate(content, schema) ==
  IF schema.d.type \notin SimpleTypes THEN "SchemaError"
  ELSE IF content.t # "dict" \/ ~(schema.d.required \subseteq DOMAIN content.d)
       THEN "ValidationError"
  ELSE "none"

(***************************************************************************)
(* A handled request ends in a response (jsonify of a dict) or in a fault: *)
(* an exception no handler caught.                                         *)
(***************************************************************************)
jsonify(fields) == [kind |-> "response", json |-> fields]
Fault(e) == [kind |-> "fault", exc |-> e]

\* list.remove(x): drops the first occurrence.
RECURSIVE list_remove(_, _)
list_remove(l, x) ==
  IF l = <<>> THEN <<>>
  ELSE IF Head(l) = x THEN Tail(l)
  ELSE <<Head(l)>> \o list_remove(Tail(l), x)

\* x in l
list_contains(l, x) == \E i \in 1..Len(l) : l[i] = x

(***************************************************************************)
(* ValidationView.post, in its four stages.                                *)
(***************************************************************************)
NoArg == "<absent>"

\* Lines 108-112: the outcome of the fetch of url, got.
ResolveUrl(url, got) ==
  IF got.exc = "ValueError" \/ IsRequestException(got.exc)
  THEN [state |-> "REQUEST_ERROR", url |-> Str(url), content |-> None,
        fetches |-> <<url>>,
        outcome |-> jsonify("request_error" :> Str(got.exc))]
  ELSE IF got.exc # "none"
  THEN [state |-> "RAISED", url |-> Str(url), content |-> None,
        fetches |-> <<url>>, outcome |-> Fault(got.exc)]
  ELSE [state |-> "RESOLVED", url |-> Str(url), content |-> got.v,
        fetches |-> <<url>>, outcome |-> Fault("none")]

\* Lines 114-121: the outcome of parsing the body, got.
ResolveBody(data, got) ==
  IF got.exc = "ValueError"
  THEN [state |-> "REQUEST_ERROR", url |-> None, content |-> None,
        fetches |-> <<>>,
        outcome |-> jsonify("request_error" :> Str(got.exc) @@ "response" :> data)]
  ELSE IF got.exc # "none"
  THEN [state |-> "RAISED", url |-> None, content |-> None,
        fetches |-> <<>>, outcome |-> Fault(got.exc)]
  ELSE [state |-> "RESOLVED", url |-> None, content |-> got.v,
        fetches |-> <<>>, outcome |-> Fault("none")]

\* Mutant: every URL that starts with the service's own contribute.json URL
\* is rewritten.
RewriteSelf_Prefix(url) ==
  IF url \in {host_url \o "contribute.json", host_url \o "contribute.json?v=1"}
  THEN this_url ELSE url

\* Lines 103-107: the service's own contribute.json is fetched upstream.
RewriteSelf(url) == IF url = host_url \o "contribute.json" THEN this_url ELSE url

\* What requests.get(url) followed by response.json() gives.
get_json(answer) ==
  IF answer.exc # "none" THEN Raise(answer.exc) ELSE response_json(answer)

\* Mutant: the rewritten URL is fetched, the submitted one kept for the
\* response and the history.
ResolveContent_KeepSubmitted(req, answer) ==
  IF req.url # NoArg
  THEN [ResolveUrl(RewriteSelf(req.url), get_json(answer)) EXCEPT !.url = Str(req.url)]
  ELSE IF Truthy(req.data) THEN ResolveBody(req.data, json_loads(req.data))
  ELSE [state |-> "UNBOUND", url |-> None, content |-> None,
        fetches |-> <<>>, outcome |-> Fault("UnboundLocalError")]

\* Lines 97-121: the content resolver.  A request has the query argument
\* url (or not) and the body data.  With neither, url and content stay
\* unbound.
ResolveContent(req, answer) ==
  IF req.url # NoArg THEN ResolveUrl(RewriteSelf(req.url), get_json(answer))
  ELSE IF Truthy(req.data) THEN ResolveBody(req.data, json_loads(req.data))
  ELSE [state |-> "UNBOUND", url |-> None, content |-> None,
        fetches |-> <<>>, outcome |-> Fault("UnboundLocalError")]

\* Mutant: the schema is stored for half an hour.
SchemaFetch_HalfHour(c, t, got) ==
  IF got.exc # "none"
  THEN [exc |-> got.exc, schema |-> None, cache |-> c, fetches |-> <<SCHEMA_URL>>]
  ELSE [exc |-> "none", schema |-> got.v,
        cache |-> cache_set(c, t, "schema", got.v, 60 * 30),
        fetches |-> <<SCHEMA_URL>>]

\* Lines 125-127: the schema is fetched, parsed and stored.
SchemaFetch(c, t, got) ==
  IF got.exc # "none"
  THEN [exc |-> got.exc, schema |-> None, cache |-> c, fetches |-> <<SCHEMA_URL>>]
  ELSE [exc |-> "none", schema |-> got.v,
        cache |-> cache_set(c, t, "schema", got.v, SchemaTtl),
        fetches |-> <<SCHEMA_URL>>]

\* Line 124: a cached schema is used as it is.
SchemaOrFetch(c, t, cached, answer) ==
  IF cached.exc # "none"
  THEN [exc |-> cached.exc, schema |-> None, cache |-> c, fetches |-> <<>>]
  ELSE IF cached.v # None
  THEN [exc |-> "none", schema |-> cached.v, cache |-> c, fetches |-> <<>>]
  ELSE SchemaFetch(c, t, get_json(answer))

\* Lines 123-127: the schema provider.
SchemaStep(c, t, answer) ==
  SchemaOrFetch(c, t, cache_get(c, t, "schema", None), answer)

\* Lines 129-135: the response context.
Context(url, content, schema) ==
  "schema" :> schema @@ "schema_url" :> Str(SCHEMA_URL) @@ "response" :> content
    @@ (IF Truthy(url) THEN "url" :> url ELSE <<>>)

\* Mutant: errors is set before the validation runs.
Verdict_ErrorsFirst(context, raised) ==
  CASE raised = "none" -> context @@ "errors" :> None
    [] raised = "ValidationError" ->
         context @@ "errors" :> None @@ "validation_error" :> Str(raised)
    [] raised = "SchemaError" ->
         context @@ "errors" :> None @@ "schema_error" :> Str(raised)

\* Mutant: the two handlers write each other's field.
Verdict_Swapped(context, raised) ==
  CASE raised = "none" -> context @@ "errors" :> None
    [] raised = "ValidationError" -> context @@ "schema_error" :> Str(raised)
    [] raised = "SchemaError" -> context @@ "validation_error" :> Str(raised)

\* Lines 137-146: the field the validation adds.
Verdict(context, raised) ==
  CASE raised = "none" -> context @@ "errors" :> None
    [] raised = "ValidationError" -> context @@ "validation_error" :> Str(raised)
    [] raised = "SchemaError" -> context @@ "schema_error" :> Str(raised)

\* Lines 129-146: the response context and the validation.
ValidateStep(url, content, schema) ==
  Verdict(Context(url, content, schema), jsonschema_validate(content, schema))

\* Mutant: the prior occurrence is not removed.
Promote_NoRemove(previous_urls, url) == <<url>> \o previous_urls

\* Lines 149-151: the URL moves to the front.
Promote(previous_urls, url) ==
  <<url>> \o (IF list_contains(previous_urls, url)
              THEN list_remove(previous_urls, url) ELSE previous_urls)

\* Mutant: the list is read again when it is written, in one step.
RecordInto_Reread(c, t, url, got) ==
  [exc |-> "none",
   cache |-> cache_set(c, t, "urls_submitted",
                       List(Promote(cache_get(c, t, "urls_submitted", List(<<>>)).v.l, url)),
                       HistoryTtl)]

\* Lines 148-152 once the history is read.
RecordInto(c, t, url, got) ==
  IF got.exc # "none" THEN [exc |-> got.exc, cache |-> c]
  ELSE [exc |-> "none",
        cache |-> cache_set(c, t, "urls_submitted", List(Promote(got.v.l, url)),
                            HistoryTtl)]

\* Lines 148-152: the submission history.
RecordUrl(c, t, url) ==
  RecordInto(c, t, url, cache_get(c, t, "urls_submitted", List(<<>>)))

\* Lines 148-154: the history is written and the context returned.
Finish(r, s, context, h) ==
  [cache |-> h.cache, fetches |-> r.fetches \o s.fetches,
   stages |-> {"resolve", "schema", "validate", "history"},
   outcome |-> IF h.exc # "none" THEN Fault(h.exc) ELSE jsonify(context)]

\* Mutant: the history is updated only when the document is valid.
AfterSchema_RecordIfValid(r, s, t) ==
  IF s.exc # "none"
  THEN [cache |-> s.cache, fetches |-> r.fetches \o s.fetches,
        stages |-> {"resolve", "schema"}, outcome |-> Fault(s.exc)]
  ELSE IF r.state = "UNBOUND"
  THEN [cache |-> s.cache, fetches |-> r.fetches \o s.fetches,
        stages |-> {"resolve", "schema"}, outcome |-> r.outcome]
  ELSE Finish(r, s, ValidateStep(r.url, r.content, s.schema),
              IF jsonschema_validate(r.content, s.schema) = "none"
              THEN RecordUrl(s.cache, t, r.url)
              ELSE [exc |-> "none", cache |-> s.cache])

\* Mutant: the URL is recorded before the failed schema step ends the request.
AfterSchema_RecordThenFail(r, s, t) ==
  IF s.exc # "none"
  THEN [cache |-> RecordUrl(s.cache, t, r.url).cache, fetches |-> r.fetches \o s.fetches,
        stages |-> {"resolve", "schema"}, outcome |-> Fault(s.exc)]
  ELSE IF r.state = "UNBOUND"
  THEN [cache |-> s.cache, fetches |-> r.fetches \o s.fetches,
        stages |-> {"resolve", "schema"}, outcome |-> r.outcome]
  ELSE Finish(r, s, ValidateStep(r.url, r.content, s.schema),
              RecordUrl(s.cache, t, r.url))

\* Lines 129-154: with the schema s at hand.
AfterSchema(r, s, t) ==
  IF s.exc # "none"
  THEN [cache |-> s.cache, fetches |-> r.fetches \o s.fetches,
        stages |-> {"resolve", "schema"}, outcome |-> Fault(s.exc)]
  ELSE IF r.state = "UNBOUND"
  THEN [cache |-> s.cache, fetches |-> r.fetches \o s.fetches,
        stages |-> {"resolve", "schema"}, outcome |-> r.outcome]
  ELSE Finish(r, s, ValidateStep(r.url, r.content, s.schema),
              RecordUrl(s.cache, t, r.url))

\* Mutant: a request error does not return before the history update.
AfterResolve_NoReturn(r, c, t, schemaAnswer) ==
  IF r.state = "RAISED"
  THEN [cache |-> c, fetches |-> r.fetches, stages |-> {"resolve"},
        outcome |-> r.outcome]
  ELSE IF r.state = "REQUEST_ERROR"
  THEN [cache |-> RecordUrl(c, t, r.url).cache, fetches |-> r.fetches,
        stages |-> {"resolve"}, outcome |-> r.outcome]
  ELSE AfterSchema(r, SchemaStep(c, t, schemaAnswer), t)

\* Lines 112-154: with the content resolution r at hand.  A request error
\* returns at once; an exception neither except clause names ends the request.
AfterResolve(r, c, t, schemaAnswer) ==
  IF r.state \in {"REQUEST_ERROR", "RAISED"}
  THEN [cache |-> c, fetches |-> r.fetches, stages |-> {"resolve"},
        outcome |-> r.outcome]
  ELSE AfterSchema(r, SchemaStep(c, t, schemaAnswer), t)

\* The whole handler: the store after it, the outbound fetches it issued in
\* order, the stages it ran and how it ended.
ValidationView_post(req, c, t, contentAnswer, schemaAnswer) ==
  AfterResolve(ResolveContent(req, contentAnswer), c, t, schemaAnswer)

(***************************************************************************)
(* ValidateUrlView.post: request.json is the parsed body, None when the    *)
(* request carries no JSON.                                                *)
(***************************************************************************)
\* Mutant: the result is cached for an hour.
FreshCheck_Hour(c, t, url, status_code) ==
  [cache |-> IF status_code >= 200 /\ status_code < 500
             THEN cache_set(c, t, ReachKey(url.s),
                            Dict([url |-> url, status_code |-> Num(status_code)]),
                            ReachTtl * 60)
             ELSE c,
   fetches |-> <<url.s>>,
   outcome |-> jsonify([url |-> url, status_code |-> Num(status_code)])]

\* Mutant: status 500 is cached too.
FreshCheck_Inclusive(c, t, url, status_code) ==
  [cache |-> IF status_code >= 200 /\ status_code <= 500
             THEN cache_set(c, t, ReachKey(url.s),
                            Dict([url |-> url, status_code |-> Num(status_code)]),
                            ReachTtl)
             ELSE c,
   fetches |-> <<url.s>>,
   outcome |-> jsonify([url |-> url, status_code |-> Num(status_code)])]

\* Lines 167-178: a fresh check of url, answered by answer.
FreshCheck(c, t, url, status_code) ==
  [cache |-> IF status_code >= 200 /\ status_code < 500
             THEN cache_set(c, t, ReachKey(url.s),
                            Dict([url |-> url, status_code |-> Num(status_code)]),
                            ReachTtl)
             ELSE c,
   fetches |-> <<url.s>>,
   outcome |-> jsonify([url |-> url, status_code |-> Num(status_code)])]

\* Mutant: ConnectionError is not caught.
CheckOrCached_NoExcept(c, t, url, cached, answer) ==
  IF cached.exc # "none"
  THEN [cache |-> c, fetches |-> <<>>, outcome |-> Fault(cached.exc)]
  ELSE IF cached.v # None
  THEN [cache |-> c, fetches |-> <<>>, outcome |-> jsonify(cached.v.d)]
  ELSE IF answer.exc # "none"
  THEN [cache |-> c, fetches |-> <<url.s>>, outcome |-> Fault(answer.exc)]
  ELSE FreshCheck(c, t, url, answer.status_code)

\* Lines 165-178 once the cache is read.
CheckOrCached(c, t, url, cached, answer) ==
  IF cached.exc # "none"
  THEN [cache |-> c, fetches |-> <<>>, outcome |-> Fault(cached.exc)]
  ELSE IF cached.v # None
  THEN [cache |-> c, fetches |-> <<>>, outcome |-> jsonify(cached.v.d)]
  ELSE IF answer.exc \notin {"none", "ConnectionError"}
  THEN [cache |-> c, fetches |-> <<url.s>>, outcome |-> Fault(answer.exc)]
  ELSE FreshCheck(c, t, url,
                  IF answer.exc = "none" THEN answer.status_code ELSE 500)

ValidateUrlView_post(req, c, t, answer) ==
  IF req.json = None THEN [cache |-> c, fetches |-> <<>>, outcome |-> Fault("TypeError")]
  ELSE IF "url" \notin DOMAIN req.json.d
  THEN [cache |-> c, fetches |-> <<>>, outcome |-> Fault("KeyError")]
  ELSE CheckOrCached(c, t, req.json.d.url,
                     cache_get(c, t, ReachKey(req.json.d.url.s), None), answer)

(***************************************************************************)
(* ExamplesView.get                                                        *)
(***************************************************************************)
\* Mutant: the canonical URL is put first.
WithThisUrl_Prepend(urls) ==
  IF ~list_contains(urls, Str(this_url)) THEN <<Str(this_url)>> \o urls ELSE urls

\* Lines 188-190: the canonical URL is appended when missing.
WithThisUrl(urls) ==
  IF ~list_contains(urls, Str(this_url)) THEN Append(urls, Str(this_url)) ELSE urls

\* Lines 187-191 once the history is read.
ExamplesOf(c, got) ==
  IF got.exc # "none" THEN [cache |-> c, fetches |-> <<>>, outcome |-> Fault(got.exc)]
  ELSE [cache |-> c, fetches |-> <<>>,
        outcome |-> jsonify("urls" :> List(WithThisUrl(got.v.l)))]

\* Mutant: the list with the canonical URL appended is written back.
ExamplesView_get_WriteBack(c, t) ==
  [ExamplesOf(c, cache_get(c, t, "urls_submitted", List(<<>>)))
     EXCEPT !.cache =
       cache_set(c, t, "urls_submitted",
                 List(WithThisUrl(cache_get(c, t, "urls_submitted", List(<<>>)).v.l)),
                 HistoryTtl)]

ExamplesView_get(c, t) ==
  ExamplesOf(c, cache_get(c, t, "urls_submitted", List(<<>>)))

(***************************************************************************)
(* The requests clients send.                                              *)
(***************************************************************************)
Datas == {Str(""), json_dumps(DocBad), NotJson}
ValidateRequests ==
  {[url |-> u, data |-> Str("")] : u \in Urls}
    \cup {[url |-> NoArg, data |-> d] : d \in Datas}
ValidateUrlRequests ==
  {[json |-> Dict([url |-> Str(u)])] : u \in CheckUrls}
    \cup {[json |-> None], [json |-> Dict([other |-> Str("x")])]}

(***************************************************************************)
(* The observer: what a client and the remote hosts see of the service,    *)
(* kept beside the state to state the properties.  It reads the requests,  *)
(* the answers of the remote hosts and the clock, never the store.         *)
(***************************************************************************)
\* Most recent first, each value once.
MostRecentFirst(u, l) == <<u>> \o SelectSeq(l, LAMBDA x : x # u)

IsJsonAnswer(answer) == answer.exc = "none" /\ answer.body # NotJson

\* Content resolution succeeds: the URL answers with JSON, or the body is JSON.
Resolves(req, answer) ==
  IF req.url # NoArg THEN IsJsonAnswer(answer)
  ELSE req.data \in {json_dumps(d) : d \in Docs}

\* The URL of a request as the service fetches it, None for a body.
FetchedUrl(req) ==
  IF req.url = NoArg THEN None
  ELSE IF req.url = SelfUrl THEN Str(this_url) ELSE Str(req.url)

\* The request gets past the content resolver: its content resolves, or it
\* names neither a URL nor a body.
PassesResolver(req, answer) ==
  Resolves(req, answer) \/ (req.url = NoArg /\ req.data = Str(""))

Never == 0 - 1
Within(at, t, ttl) == at # Never /\ t < at + ttl

\* schemaAt: when the schema was last fetched and parsed.  histAt: when a
\* submission was last recorded.  claimed: the URLs of the requests whose
\* content resolved.  expected: the URLs of those that also had a schema.
\* promoted: the last recorded URL was already in the history, behind its
\* front.  reachAt,
\* reachStatus: the last fresh check of a URL that ended with a status in
\* [200, 500).  lastStatus, prevStatus: the status of the last check of a URL
\* and of the one before.  written: what the callers of cache_set wrote, value
\* and expiry instant.
ObsInit ==
  [written |-> [k \in {} |-> None],
   schemaAt |-> Never, histAt |-> Never,
   claimed |-> <<>>, expected |-> <<>>, promoted |-> FALSE,
   reachAt |-> [u \in CheckUrls |-> Never],
   reachStatus |-> [u \in CheckUrls |-> Never],
   lastStatus |-> [u \in CheckUrls |-> Never],
   prevStatus |-> [u \in CheckUrls |-> Never]]

ObserveRecorded(o, url, t) ==
  [o EXCEPT !.expected = MostRecentFirst(url, @), !.histAt = t,
            !.promoted = \E i \in 2..Len(o.expected) : o.expected[i] = url]

ObserveSchema(o, stored, t) ==
  IF stored THEN [o EXCEPT !.schemaAt = t] ELSE o

ObserveClaimed(o, resolves, url) ==
  IF resolves THEN [o EXCEPT !.claimed = MostRecentFirst(url, @)] ELSE o

ObserveValidate(o, req, contentAnswer, schemaAnswer, t) ==
  IF PassesResolver(req, contentAnswer)
       /\ (Within(o.schemaAt, t, 3600) \/ IsJsonAnswer(schemaAnswer))
       /\ Resolves(req, contentAnswer)
  THEN ObserveRecorded(
         ObserveSchema(ObserveClaimed(o, TRUE, FetchedUrl(req)),
                       ~Within(o.schemaAt, t, 3600), t),
         FetchedUrl(req), t)
  ELSE ObserveSchema(
         ObserveClaimed(o, Resolves(req, contentAnswer), FetchedUrl(req)),
         PassesResolver(req, contentAnswer) /\ ~Within(o.schemaAt, t, 3600)
           /\ IsJsonAnswer(schemaAnswer),
         t)

IsCacheable(status) == status >= 200 /\ status < 500

ObserveFresh(o, u, status, t) ==
  IF IsCacheable(status)
  THEN [o EXCEPT !.reachAt[u] = t, !.reachStatus[u] = status]
  ELSE o

ObserveStatus(o, u, outcome) ==
  [o EXCEPT !.prevStatus[u] = o.lastStatus[u],
            !.lastStatus[u] = IF outcome.kind = "response"
                              THEN outcome.json.status_code.n ELSE Never]

ObserveValidateUrl(o, req, outcome, answer, t) ==
  IF req.json = None \/ "url" \notin DOMAIN req.json.d THEN o
  ELSE IF answer.exc \in {"none", "ConnectionError"}
  THEN ObserveStatus(
         ObserveFresh(o, req.json.d.url.s,
                      IF answer.exc = "none" THEN answer.status_code ELSE 500, t),
         req.json.d.url.s, outcome)
  ELSE ObserveStatus(o, req.json.d.url.s, outcome)

ObserveWritten(o, key, value, t, ttl) ==
  [o EXCEPT !.written = (key :> [val |-> value, exp |-> t + ttl]) @@ @]

ObserveTick(o, t) ==
  IF o.histAt # Never /\ t >= o.histAt + 864000
  THEN [o EXCEPT !.histAt = Never, !.claimed = <<>>, !.expected = <<>>,
                 !.promoted = FALSE]
  ELSE o

(***************************************************************************)
(* The state machine.                                                      *)
(***************************************************************************)
EmptyCache == [k \in {} |-> None]

\* last: the request handled by the step that led here, what the remote
\* hosts answered it, and how it ended.
NoRequest ==
  [op |-> "none", req |-> None, ca |-> [exc |-> "unasked"],
   sa |-> [exc |-> "unasked"], fetches |-> <<>>, stages |-> {},
   outcome |-> [kind |-> "fault", exc |-> "none"]]

\* The workers of the server and a worker between two requests.
Workers == {1, 2}
IdleProc ==
  [pc |-> "idle", op |-> "none", req |-> None, r |-> None, schema |-> None,
   previous_urls |-> Ok(None), outcome |-> Fault("none")]

Init ==
  /\ cache = EmptyCache
  /\ now = 0
  /\ ticks = 0
  /\ nreq = 0
  /\ last = NoRequest
  /\ obs = ObsInit
  /\ procs = [w \in Workers |-> IdleProc]

\* Time passes; entries past their expiry instant are gone.
Tick(d) ==
  /\ ticks < MaxTicks
  /\ now' = now + d
  /\ cache' = [k \in {k \in DOMAIN cache : now + d < cache[k].exp} |-> cache[k]]
  /\ obs' = ObserveTick(obs, now + d)
  /\ ticks' = ticks + 1
  /\ last' = NoRequest
  /\ UNCHANGED <<nreq, procs>>

\* Half a minute; half an hour or ten days.
TickSeconds == Tick(30)
TickHours == \E d \in {1800, 864000} : Tick(d)
TickDays == Tick(HistoryTtl)

\* A remote host answers only when asked: the content host when the request
\* names a URL, the schema host when the handler reaches line 125, the
\* checked host when the handler reaches line 171.
Unasked == [exc |-> "unasked"]
ContentAnswersTo(req) == IF req.url # NoArg THEN ContentAnswers ELSE {Unasked}
SchemaAnswersTo(req, ca, c, t) ==
  IF ResolveContent(req, ca).state \notin {"REQUEST_ERROR", "RAISED"}
       /\ cache_get(c, t, "schema", None) = Ok(None)
  THEN SchemaAnswers ELSE {Unasked}
ReachAnswersTo(req, c, t) ==
  IF req.json # None /\ "url" \in DOMAIN req.json.d
       /\ cache_get(c, t, ReachKey(req.json.d.url.s), None) = Ok(None)
  THEN ReachAnswers ELSE {Unasked}

ValidatePost ==
  /\ nreq < MaxRequests
  /\ \E req \in ValidateRequests :
     \E ca \in ContentAnswersTo(req) :
     \E sa \in SchemaAnswersTo(req, ca, cache, now) :
     \E r \in {ValidationView_post(req, cache, now, ca, sa)} :
        /\ cache' = r.cache
        /\ last' = [op |-> "validate", req |-> req, ca |-> ca, sa |-> sa,
                    fetches |-> r.fetches, stages |-> r.stages,
                    outcome |-> r.outcome]
        /\ obs' = ObserveValidate(obs, req, ca, sa, now)
  /\ nreq' = nreq + 1
  /\ UNCHANGED <<now, ticks, procs>>

ValidateUrlPost ==
  /\ nreq < MaxRequests
  /\ \E req \in ValidateUrlRequests :
     \E a \in ReachAnswersTo(req, cache, now) :
     \E r \in {ValidateUrlView_post(req, cache, now, a)} :
        /\ cache' = r.cache
        /\ last' = [op |-> "validateurl", req |-> req, ca |-> a, sa |-> Unasked,
                    fetches |-> r.fetches, stages |-> {}, outcome |-> r.outcome]
        /\ obs' = ObserveValidateUrl(obs, req, r.outcome, a, now)
  /\ nreq' = nreq + 1
  /\ UNCHANGED <<now, ticks, procs>>

ExamplesGet ==
  /\ nreq < MaxRequests
  /\ \E r \in {ExamplesView_get(cache, now)} :
        /\ cache' = r.cache
        /\ last' = [op |-> "examples", req |-> None, ca |-> Unasked, sa |-> Unasked,
                    fetches |-> r.fetches, stages |-> {}, outcome |-> r.outcome]
  /\ nreq' = nreq + 1
  /\ UNCHANGED <<now, ticks, obs, procs>>

\* The three views together.
Next == TickSeconds \/ TickHours \/ ValidatePost \/ ValidateUrlPost \/ ExamplesGet

Spec == Init /\ [][Next]_vars

\* The validation service alone: /validate and /examples.json share the keys
\* 'schema' and 'urls_submitted'.
NextValidate == TickHours \/ ValidatePost \/ ExamplesGet
SpecValidate == Init /\ [][NextValidate]_vars

\* The reachability checker alone: /validateurl uses the keys 'validation-<url>'.
NextReach == TickSeconds \/ ValidateUrlPost
SpecReach == Init /\ [][NextReach]_vars

(***************************************************************************)
(* The handlers step by step, one worker per request.  A worker gives up   *)
(* control where its handler calls out: at requests.get (it waits for the  *)
(* remote host, which may answer or not) and at each access to the store.  *)
(***************************************************************************)
\* The submissions that race: two URLs and a body.
ConcurrentRequests ==
  {[url |-> u, data |-> Str("")] : u \in CheckUrls}
    \cup {[url |-> NoArg, data |-> json_dumps(DocBad)]}

Done(p, outcome) == [p EXCEPT !.pc = "done", !.outcome = outcome]

\* Lines 111-123: after the content resolver.
Resolved(p, r) ==
  IF r.state \in {"REQUEST_ERROR", "RAISED"} THEN Done(p, r.outcome)
  ELSE [p EXCEPT !.pc = "schema", !.r = r]

\* Lines 129-148: with the schema at hand.
WithSchema(p, schema) ==
  IF p.r.state = "UNBOUND" THEN Done(p, p.r.outcome)
  ELSE [p EXCEPT !.pc = "read_history", !.schema = schema]

\* Lines 96-109: a worker takes a /validate request; with a url it calls
\* requests.get(url).
ValidateBegin(w) ==
  /\ nreq < MaxRequests
  /\ procs[w].pc = "idle"
  /\ \E req \in ConcurrentRequests :
        procs' = [procs EXCEPT ![w] =
          IF req.url # NoArg
          THEN [IdleProc EXCEPT !.pc = "await_content", !.op = "validate", !.req = req]
          ELSE Resolved([IdleProc EXCEPT !.op = "validate", !.req = req],
                        ResolveContent(req, Unasked))]
  /\ nreq' = nreq + 1
  /\ UNCHANGED <<cache, now, ticks, last, obs>>

\* Lines 109-112: requests.get(url) returns or raises.
ContentReply(w) ==
  /\ procs[w].pc = "await_content"
  /\ \E answer \in ContentAnswers :
        procs' = [procs EXCEPT ![w] = Resolved(@, ResolveContent(@.req, answer))]
  /\ UNCHANGED <<cache, now, ticks, nreq, last, obs>>

\* Lines 123-125: cache_get('schema'); on a miss, requests.get(SCHEMA_URL).
SchemaLookup(w) ==
  /\ procs[w].pc = "schema"
  /\ \E cached \in {cache_get(cache, now, "schema", None)} :
        procs' = [procs EXCEPT ![w] =
          IF cached.exc # "none" THEN Done(@, Fault(cached.exc))
          ELSE IF cached.v # None THEN WithSchema(@, cached.v)
          ELSE [@ EXCEPT !.pc = "await_schema"]]
  /\ UNCHANGED <<cache, now, ticks, nreq, last, obs>>

\* Lines 125-127: requests.get(SCHEMA_URL) returns or raises.
SchemaReply(w) ==
  /\ procs[w].pc = "await_schema"
  /\ \E answer \in SchemaAnswers :
     \E s \in {SchemaFetch(cache, now, get_json(answer))} :
        /\ cache' = s.cache
        /\ procs' = [procs EXCEPT ![w] =
             IF s.exc # "none" THEN Done(@, Fault(s.exc)) ELSE WithSchema(@, s.schema)]
  /\ UNCHANGED <<now, ticks, nreq, last, obs>>

\* Line 148: previous_urls = cache_get('urls_submitted', []).
ReadHistory(w) ==
  /\ procs[w].pc = "read_history"
  /\ procs' = [procs EXCEPT ![w] =
       [@ EXCEPT !.pc = "write_history",
                 !.previous_urls = cache_get(cache, now, "urls_submitted", List(<<>>))]]
  /\ UNCHANGED <<cache, now, ticks, nreq, last, obs>>

\* Lines 149-154: the list read at line 148, changed and written back.
WriteHistory(w) ==
  /\ procs[w].pc = "write_history"
  /\ \E h \in {RecordInto(cache, now, procs[w].r.url, procs[w].previous_urls)} :
        /\ cache' = h.cache
        /\ procs' = [procs EXCEPT ![w] =
             Done(@, Finish(@.r, [fetches |-> <<>>],
                            ValidateStep(@.r.url, @.r.content, @.schema), h).outcome)]
  /\ UNCHANGED <<now, ticks, nreq, last, obs>>

\* Lines 164-171: a worker takes a /validateurl request; on a miss it calls
\* requests.get(url).
CheckBegin(w) ==
  /\ nreq < MaxRequests
  /\ procs[w].pc = "idle"
  /\ \E req \in ValidateUrlRequests :
        procs' = [procs EXCEPT ![w] =
          IF ReachAnswersTo(req, cache, now) = {Unasked}
          THEN Done([IdleProc EXCEPT !.op = "validateurl", !.req = req],
                    ValidateUrlView_post(req, cache, now, Unasked).outcome)
          ELSE [IdleProc EXCEPT !.pc = "await_reach", !.op = "validateurl", !.req = req]]
  /\ nreq' = nreq + 1
  /\ UNCHANGED <<cache, now, ticks, last, obs>>

\* Lines 171-178: requests.get(url) returns or raises.
ReachReply(w) ==
  /\ procs[w].pc = "await_reach"
  /\ \E answer \in ReachAnswers :
     \E res \in {CheckOrCached(cache, now, procs[w].req.json.d.url, Ok(None), answer)} :
        /\ cache' = res.cache
        /\ procs' = [procs EXCEPT ![w] = Done(@, res.outcome)]
  /\ UNCHANGED <<now, ticks, nreq, last, obs>>

\* The response is sent and the worker is free again.
Respond(w) ==
  /\ procs[w].pc = "done"
  /\ procs' = [procs EXCEPT ![w] = IdleProc]
  /\ UNCHANGED <<cache, now, ticks, nreq, last, obs>>

NextConcurrent ==
  \/ TickDays
  \/ \E w \in Workers :
        \/ ValidateBegin(w) \/ ContentReply(w) \/ SchemaLookup(w) \/ SchemaReply(w)
        \/ ReadHistory(w) \/ WriteHistory(w) \/ Respond(w)
SpecConcurrent == Init /\ [][NextConcurrent]_vars

\* The workers and the remote hosts.  A worker that can take a step of its
\* own takes it; a client need not send a request, and a remote host need not
\* answer one: requests.get is called without a timeout (lines 109, 125, 171).
WorkerStep(w) ==
  SchemaLookup(w) \/ ReadHistory(w) \/ WriteHistory(w) \/ Respond(w)
NextWaiting ==
  \E w \in Workers :
     \/ ValidateBegin(w) \/ ContentReply(w) \/ SchemaLookup(w) \/ SchemaReply(w)
     \/ ReadHistory(w) \/ WriteHistory(w) \/ CheckBegin(w) \/ ReachReply(w)
     \/ Respond(w)
SpecWaiting ==
  Init /\ [][NextWaiting]_vars /\ \A w \in Workers : WF_vars(WorkerStep(w))

\* The two cache helpers alone, called with values of every kind they accept.
CacheKeys == {"k1", "k2"}
CacheValues ==
  {DocBad, List(<<Str("http://a/c.json")>>), List(<<>>), Bool(TRUE), Bool(FALSE),
   Str("hello")}
CacheDefaults == {None, List(<<>>), Bool(FALSE)}

CacheSet ==
  /\ nreq < MaxRequests
  /\ \E key \in CacheKeys : \E value \in CacheValues :
        /\ cache' = cache_set(cache, now, key, value, ReachTtl)
        /\ obs' = ObserveWritten(obs, key, value, now, ReachTtl)
        /\ last' = [NoRequest EXCEPT !.op = "cache_set",
                                     !.req = [key |-> key, value |-> value]]
  /\ nreq' = nreq + 1
  /\ UNCHANGED <<now, ticks, procs>>

CacheGet ==
  /\ nreq < MaxRequests
  /\ \E key \in CacheKeys : \E default \in CacheDefaults :
        last' = [NoRequest EXCEPT !.op = "cache_get",
                                  !.req = [key |-> key, default |-> default],
                                  !.outcome = cache_get(cache, now, key, default)]
  /\ nreq' = nreq + 1
  /\ UNCHANGED <<cache, now, ticks, obs, procs>>

NextCache == TickSeconds \/ CacheSet \/ CacheGet
SpecCache == Init /\ [][NextCache]_vars

\* The three views together, in short runs: every request a client can send,
\* in every order, with the reachability entries expiring in between.
Short == ticks + nreq < MaxSteps
NextShort ==
  \/ Short /\ TickSeconds
  \/ Short /\ ValidatePost
  \/ Short /\ ValidateUrlPost
  \/ Short /\ ExamplesGet
SpecShort == Init /\ [][NextShort]_vars

(***************************************************************************)
(* Properties.                                                             *)
(***************************************************************************)
\* The history a reader of 'urls_submitted' gets.
StoredHistory == cache_get(cache, now, "urls_submitted", List(<<>>)).v.l

\* This step handles a request of the kind op.
Step(op) == nreq' = nreq + 1 /\ last'.op = op

HasFetch(fetches, url) == \E i \in 1..Len(fetches) : fetches[i] = url
Occurrences(l, x) == Cardinality({i \in 1..Len(l) : l[i] = x})
IsResponse(l) == l.outcome.kind = "response"
ErrorFields == {"validation_error", "schema_error", "request_error"}
\* The schema was at hand: cached, or fetched and parsed.
SchemaObtained(l) == l.sa = Unasked \/ IsJsonAnswer(l.sa)
\* The URL a well-formed /validateurl request checks.
IsCheck(req) == req.json # None /\ "url" \in DOMAIN req.json.d
CheckedUrl(req) == req.json.d.url.s

\* C1 as stated: the history equals the distinct URLs of the requests whose
\* content resolved, most recent first.
C1_HistoryOfSubmitted == StoredHistory = obs.claimed

\* C1, amended: the history equals the distinct URLs of the requests whose
\* content resolved and that had a schema at hand, most recent first, each
\* once, with no cap on its length.
C1_HistoryOfRecorded == StoredHistory = obs.expected

\* A, B, A: the third submission finds its URL behind the front and moves it.
C1_Witness ==
  /\ last.op = "validate" /\ nreq = 3 /\ obs.promoted
  /\ StoredHistory = <<Str("http://a/c.json"), Str("http://b/c.json")>>

\* C2: a /validate request whose content does not resolve answers with
\* request_error alone (and the raw body under response, for a body), looks up
\* and fetches no schema, runs no validation and leaves the store as it was.
C2_RequestErrorIsTerminal ==
  [][(Step("validate") /\ ~PassesResolver(last'.req, last'.ca)) =>
       /\ IsResponse(last')
       /\ "request_error" \in DOMAIN last'.outcome.json
       /\ IF last'.req.url # NoArg
          THEN DOMAIN last'.outcome.json = {"request_error"}
          ELSE /\ DOMAIN last'.outcome.json = {"request_error", "response"}
               /\ last'.outcome.json.response = last'.req.data
       /\ ~HasFetch(last'.fetches, SCHEMA_URL)
       /\ last'.stages = {"resolve"}
       /\ cache' = cache]_vars

\* A body that is no JSON, with a schema and a history in the store.
C2_Witness ==
  /\ last.op = "validate" /\ ~PassesResolver(last.req, last.ca)
  /\ last.req.url = NoArg
  /\ {"schema", "urls_submitted"} \subseteq DOMAIN cache

\* C3: a /validate response carries errors: null and no error field, or
\* exactly one of validation_error, schema_error, request_error and no errors.
C3_ExactlyOneAlternative ==
  (last.op = "validate" /\ IsResponse(last)) =>
     IF "errors" \in DOMAIN last.outcome.json
     THEN /\ DOMAIN last.outcome.json \cap ErrorFields = {}
          /\ last.outcome.json.errors = None
     ELSE Cardinality(DOMAIN last.outcome.json \cap ErrorFields) = 1

\* A fetched document that fails the schema.
C3_Witness ==
  /\ last.op = "validate" /\ IsResponse(last) /\ last.req.url # NoArg
  /\ "validation_error" \in DOMAIN last.outcome.json

\* C4 as stated: whenever the content resolves, the request's URL is at the
\* front of the history once the request is over.
C4_RecordedWheneverResolved ==
  (last.op = "validate" /\ Resolves(last.req, last.ca)) =>
     (StoredHistory # <<>> /\ StoredHistory[1] = FetchedUrl(last.req))

\* C4, amended: whenever the content resolves and the schema is at hand, the
\* request answers and its URL (None for a body) is at the front of the history,
\* whatever the verdict; the body {"name": "x"} gives validation_error, no
\* errors, and None at the front.
C4_RecordedWhateverTheVerdict ==
  (last.op = "validate" /\ Resolves(last.req, last.ca) /\ SchemaObtained(last)) =>
     /\ IsResponse(last)
     /\ StoredHistory # <<>> /\ StoredHistory[1] = FetchedUrl(last.req)
     /\ (last.req.data = json_dumps(DocBad) /\ last.outcome.json.schema = SchemaGood) =>
          /\ "validation_error" \in DOMAIN last.outcome.json
          /\ "errors" \notin DOMAIN last.outcome.json
          /\ StoredHistory[1] = None

\* The body {"name": "x"} after other submissions.
C4_Witness ==
  /\ last.op = "validate" /\ IsResponse(last)
  /\ last.req.data = json_dumps(DocBad)
  /\ "validation_error" \in DOMAIN last.outcome.json
  /\ Len(StoredHistory) >= 2 /\ StoredHistory[1] = None

\* C5: a /validate request that gets past the content resolver fetches the
\* schema URL, once, exactly when no schema was fetched and parsed in the 3600
\* seconds before it; a fetch that parses leaves its schema in the store.
C5_SchemaCacheAside ==
  [][(Step("validate") /\ PassesResolver(last'.req, last'.ca)) =>
       /\ HasFetch(last'.fetches, SCHEMA_URL) <=> ~Within(obs.schemaAt, now, 3600)
       /\ Occurrences(last'.fetches, SCHEMA_URL) <= 1
       /\ (HasFetch(last'.fetches, SCHEMA_URL) /\ IsJsonAnswer(last'.sa)) =>
            cache_get(cache', now, "schema", None) = json_loads(last'.sa.body)]_vars

\* A second call half an hour after the fetch: no fetch.
C5_Witness ==
  /\ last.op = "validate" /\ "schema" \in last.stages
  /\ ~HasFetch(last.fetches, SCHEMA_URL)
  /\ obs.schemaAt # Never /\ now > obs.schemaAt

\* C6: a check of a URL fetches it, once, exactly when no fresh check of it
\* ended with a status in [200, 500) in the 60 seconds before; otherwise it
\* answers what that check answered.
C6_ReachabilityCacheHit ==
  [][(Step("validateurl") /\ IsCheck(last'.req)) =>
       IF Within(obs.reachAt[CheckedUrl(last'.req)], now, 60)
       THEN /\ last'.fetches = <<>>
            /\ last'.outcome =
                 jsonify([url |-> Str(CheckedUrl(last'.req)),
                          status_code |-> Num(obs.reachStatus[CheckedUrl(last'.req)])])
       ELSE last'.fetches = <<CheckedUrl(last'.req)>>]_vars

\* A repeat check half a minute after a 499: answered from the store.
C6_Witness ==
  /\ last.op = "validateurl" /\ IsCheck(last.req) /\ IsResponse(last)
  /\ last.fetches = <<>>
  /\ now > obs.reachAt[CheckedUrl(last.req)]
  /\ last.outcome.json.status_code = Num(499)

\* Every status the store holds for a URL is in [200, 500).
CachedStatusesCacheable ==
  \A u \in CheckUrls :
     ReachKey(u) \in DOMAIN cache =>
       IsCacheable(json_loads(cache[ReachKey(u)].val).v.d.status_code.n)

\* C7: the store never holds a status outside [200, 500); a check that answers
\* such a status leaves the store as it was; and the next check of that URL
\* fetches it again, whenever it comes.
C7_OnlyCacheableStored ==
  [][/\ CachedStatusesCacheable'
     /\ (Step("validateurl") /\ IsCheck(last'.req)) =>
          /\ (IsResponse(last') /\ ~IsCacheable(last'.outcome.json.status_code.n)) =>
               cache' = cache
          /\ (obs.lastStatus[CheckedUrl(last'.req)] # Never
                /\ ~IsCacheable(obs.lastStatus[CheckedUrl(last'.req)])) =>
               last'.fetches = <<CheckedUrl(last'.req)>>]_vars

\* Two checks of an unreachable URL in a row, no time between them.
C7_Witness ==
  /\ last.op = "validateurl" /\ IsCheck(last.req) /\ ticks = 0
  /\ last.ca = ConnectionError
  /\ obs.prevStatus[CheckedUrl(last.req)] = 500
  /\ obs.lastStatus[CheckedUrl(last.req)] = 500
  /\ last.fetches = <<CheckedUrl(last.req)>>
  /\ DOMAIN cache = {}

\* C8: a check whose fetch fails to connect answers {url, status_code: 500}.
C8_ConnectionFailureIs500 ==
  (last.op = "validateurl" /\ last.ca = ConnectionError) =>
     last.outcome = jsonify([url |-> Str(CheckedUrl(last.req)),
                             status_code |-> Num(500)])

\* An unreachable URL, checked.
C8_Witness ==
  /\ last.op = "validateurl" /\ last.ca = ConnectionError
  /\ IsResponse(last) /\ last.outcome.json.status_code = Num(500)
  /\ last.outcome.json.url = Str("http://a/c.json")

\* C9: validated against a malformed schema, every document gets schema_error
\* and never validation_error.
C9_SchemaErrorFirst ==
  (last.op = "validate" /\ "validate" \in last.stages /\ IsResponse(last)
     /\ last.outcome.json.schema = SchemaMalformed) =>
     /\ "schema_error" \in DOMAIN last.outcome.json
     /\ "validation_error" \notin DOMAIN last.outcome.json
     /\ "errors" \notin DOMAIN last.outcome.json

\* A document that fails the schema, validated against a malformed schema.
C9_Witness ==
  /\ last.op = "validate" /\ IsResponse(last)
  /\ "schema_error" \in DOMAIN last.outcome.json
  /\ last.outcome.json.schema = SchemaMalformed
  /\ last.outcome.json.response = DocBad

\* C10: /examples.json answers the stored history unchanged when the canonical
\* URL is in it, and the stored history with the canonical URL appended
\* otherwise; the canonical URL is in the answer exactly once.
C10_ExamplesAppendCanonical ==
  (last.op = "examples") =>
     /\ IsResponse(last)
     /\ DOMAIN last.outcome.json = {"urls"}
     /\ last.outcome.json.urls =
          List(IF list_contains(StoredHistory, Str(this_url))
               THEN StoredHistory
               ELSE StoredHistory \o <<Str(this_url)>>)
     /\ Occurrences(last.outcome.json.urls.l, Str(this_url)) = 1

\* A history of two URLs without the canonical one.
C10_Witness ==
  /\ last.op = "examples" /\ IsResponse(last)
  /\ Len(StoredHistory) = 2
  /\ ~list_contains(StoredHistory, Str(this_url))
  /\ last.outcome.json.urls.l[3] = Str(this_url)

\* C11: a /validate request that names a URL fetches that URL as submitted,
\* first, unless it is the service's own contribute.json: then it fetches the
\* upstream canonical raw URL and issues no request to the service itself.
\* Besides the content, only the schema URL is ever fetched.
C11_SelfReferenceRewrite ==
  (last.op = "validate" /\ last.req.url # NoArg) =>
     /\ last.fetches # <<>>
     /\ last.fetches[1] = (IF last.req.url = SelfUrl THEN this_url ELSE last.req.url)
     /\ \A i \in 2..Len(last.fetches) : last.fetches[i] = SCHEMA_URL
     /\ last.req.url = SelfUrl => ~HasFetch(last.fetches, SelfUrl)

\* The service's own URL, submitted with an empty store.
C11_Witness ==
  /\ last.op = "validate" /\ last.req.url = SelfUrl /\ IsResponse(last)
  /\ last.fetches = <<this_url, SCHEMA_URL>>

\* C16: when the schema is looked up, missed, and its fetch fails or its body
\* is no JSON, the request ends in an unhandled exception, with no response,
\* and the store is as it was: no schema entry, the history untouched.
C16_SchemaFailureIsFatal ==
  [][(Step("validate") /\ last'.sa # Unasked /\ ~IsJsonAnswer(last'.sa)) =>
       /\ last'.outcome.kind = "fault"
       /\ last'.outcome.exc \in {"ConnectionError", "ValueError"}
       /\ cache' = cache
       /\ ~Alive(cache', now, "schema")
       /\ StoredHistory' = StoredHistory]_vars

\* A document that resolved, a schema host that does not answer, a history
\* from earlier requests and time passed since.
C16_Witness ==
  /\ last.op = "validate" /\ Resolves(last.req, last.ca)
  /\ last.sa = ConnectionError /\ last.outcome.kind = "fault"
  /\ StoredHistory # <<>> /\ now > 0
  /\ ~list_contains(StoredHistory, FetchedUrl(last.req))

\* C19: /examples.json leaves every entry of the store, value and expiry, as
\* it was; the canonical URL it adds to its answer is not added to the stored
\* history, so the next /validate reads the history it would have read.
C19_ExamplesReadOnly ==
  [][Step("examples") =>
       /\ cache' = cache
       /\ StoredHistory' = StoredHistory
       /\ \A req \in ValidateRequests :
            RecordUrl(cache', now, FetchedUrl(req)) = RecordUrl(cache, now, FetchedUrl(req))]_vars

\* A history written earlier, without the canonical URL, read after time passed.
C19_Witness ==
  /\ last.op = "examples" /\ IsResponse(last)
  /\ StoredHistory # <<>> /\ ~list_contains(StoredHistory, Str(this_url))
  /\ list_contains(last.outcome.json.urls.l, Str(this_url))
  /\ now > 0 /\ cache["urls_submitted"].exp < now + HistoryTtl

\* C20: the stored history never holds the service's own contribute.json URL;
\* a /validate request that names a URL and is answered with a validation
\* result has the URL it fetched in the url field and at the front of the
\* history: the canonical raw URL when the service's own URL was submitted.
C20_RecordedUrlIsFetchedUrl ==
  /\ ~list_contains(StoredHistory, Str(SelfUrl))
  /\ (last.op = "validate" /\ last.req.url # NoArg /\ IsResponse(last)
        /\ "request_error" \notin DOMAIN last.outcome.json) =>
       /\ last.outcome.json.url = Str(last.fetches[1])
       /\ StoredHistory # <<>> /\ StoredHistory[1] = Str(last.fetches[1])
       /\ last.req.url = SelfUrl =>
            (last.outcome.json.url = Str(this_url) /\ StoredHistory[1] = Str(this_url))

\* The service's own URL submitted after another: the canonical URL in front.
C20_Witness ==
  /\ last.op = "validate" /\ last.req.url = SelfUrl /\ IsResponse(last)
  /\ "url" \in DOMAIN last.outcome.json
  /\ last.outcome.json.url = Str(this_url)
  /\ Len(StoredHistory) = 2 /\ StoredHistory[1] = Str(this_url)

\* C12 as stated: a request to any of the three views ends in an unhandled
\* exception only when the schema was looked up, missed, and could not be
\* fetched or parsed.
C12_NoUnhandledFault ==
  (last.op # "none" /\ last.outcome.kind = "fault") =>
     (last.op = "validate" /\ last.sa # Unasked /\ ~IsJsonAnswer(last.sa))

\* The worker has answered a /validate request with a validation result.
Validated(p) ==
  /\ p.pc = "done" /\ p.op = "validate" /\ p.outcome.kind = "response"
  /\ "request_error" \notin DOMAIN p.outcome.json

\* C13: when two workers have both answered a submission and both had read
\* the same list at line 148, the stored history is that list with the URL
\* of one of them put in front (or has expired): of two different new URLs
\* it holds one, and the update of the worker that wrote first is lost.
C13_LostUpdate ==
  \A w, v \in Workers :
     (w # v /\ Validated(procs[w]) /\ Validated(procs[v])
        /\ procs[w].previous_urls = procs[v].previous_urls) =>
       StoredHistory \in {<<>>,
                          Promote(procs[w].previous_urls.v.l, procs[w].r.url),
                          Promote(procs[v].previous_urls.v.l, procs[v].r.url)}

\* After a body was recorded, two URLs submitted at once: both workers read
\* [null], both answer, and the history holds one of the two URLs.
C13_Witness ==
  \E w, v \in Workers :
     /\ w # v /\ Validated(procs[w]) /\ Validated(procs[v])
     /\ procs[w].previous_urls = Ok(List(<<None>>))
     /\ procs[v].previous_urls = Ok(List(<<None>>))
     /\ procs[w].r.url = Str("http://a/c.json")
     /\ procs[v].r.url = Str("http://b/c.json")
     /\ StoredHistory = <<Str("http://b/c.json"), None>>

\* C14: the stored history holds no value twice, None included, whatever the
\* number of requests, the order of the workers' steps and the expiries.
C14_NoDuplicates ==
  \A i, j \in 1..Len(StoredHistory) : StoredHistory[i] = StoredHistory[j] => i = j

\* A body submitted a second time, its None found in the list and kept once,
\* while the other worker is between its read and its write.
C14_Witness ==
  \E w, v \in Workers :
     /\ w # v /\ Validated(procs[w]) /\ procs[w].r.url = None
     /\ list_contains(procs[w].previous_urls.v.l, None)
     /\ procs[v].pc = "write_history" /\ procs[v].r.url # None
     /\ StoredHistory = <<None>>

\* C18 as stated: every request a worker has taken is answered in the end,
\* whether or not the remote hosts reply.
C18_EveryRequestAnswered ==
  \A w \in Workers : (procs[w].pc # "idle") ~> (procs[w].pc = "done")

\* C15 as stated: cache_get of a key returns the value last written under it,
\* of the same type, while that write has not expired, and the supplied
\* default otherwise; it never returns the serialized text and never raises.
C15_RoundTrip ==
  (last.op = "cache_get") =>
     last.outcome =
       Ok(IF last.req.key \in DOMAIN obs.written
               /\ now < obs.written[last.req.key].exp
          THEN obs.written[last.req.key].val
          ELSE last.req.default)

\* Strings a client may send as the url of a check, the two other keys among
\* them.
KeyStrings == Urls \cup {"schema", "urls_submitted", ""}

\* The entry under key k is the same before and after the step.
SameEntry(k) ==
  /\ k \in DOMAIN cache' <=> k \in DOMAIN cache
  /\ k \in DOMAIN cache => cache'[k] = cache[k]

\* C17: the key of a URL is neither 'schema' nor 'urls_submitted' nor the key
\* of another URL; a /validateurl request leaves the schema, the history and
\* the entries of the other URLs as they were; a /validate request leaves
\* every reachability entry as it was; and a /validateurl response, fresh or
\* cached, names the URL that was asked for.
C17_ReachKeysApart ==
  [][/\ \A u \in KeyStrings : ReachKey(u) \notin {"schema", "urls_submitted"}
     /\ \A u, v \in KeyStrings : ReachKey(u) = ReachKey(v) => u = v
     /\ Step("validateurl") =>
          /\ SameEntry("schema") /\ SameEntry("urls_submitted")
          /\ \A u \in CheckUrls :
               (~IsCheck(last'.req) \/ u # CheckedUrl(last'.req)) => SameEntry(ReachKey(u))
          /\ IsResponse(last') => last'.outcome.json.url = Str(CheckedUrl(last'.req))
     /\ Step("validate") => \A u \in CheckUrls : SameEntry(ReachKey(u))]_vars

\* A check answered from the store while the store also holds the schema, the
\* history and nothing else.
C17_Witness ==
  /\ last.op = "validateurl" /\ IsResponse(last) /\ last.fetches = <<>>
  /\ DOMAIN cache = {"schema", "urls_submitted", ReachKey("http://b/c.json")}
  /\ last.outcome.json.url = Str("http://b/c.json")
====
